---- MODULE Spec2Model ----
(***************************************************************************)
(* HRMS Lite API (src/main.py): employees and attendance kept in two       *)
(* MongoDB collections, served by FastAPI handlers.  Every pymongo call is *)
(* one atomic step on a collection; a handler that makes several calls is  *)
(* a process that other requests can interleave with between its calls.    *)
(* Strings are sequences of one-character strings so that strip, lower,    *)
(* substring tests and strptime are computed, not assumed.                 *)
(***************************************************************************)
EXTENDS Integers, Sequences, FiniteSets, TLC

(* ---------------- bounds ---------------- *)
\* number of requests that can be in flight at once
NumProcs == 2
\* number of requests ever started
MaxRequests == 4

Procs == 1..NumProcs

(* ---------------- string literals ---------------- *)
S_E1 ==
    <<"E", "1">>
S_E1_padded ==
    <<" ", "E", "1", " ">>
S_E2 ==
    <<"E", "2">>
S_blank ==
    <<" ">>
S_Al ==
    <<"A", "l">>
S_A_padded ==
    <<" ", "A", " ">>
S_ab_c ==
    <<"a", "@", "b", ".", "c">>
S_AB_c_padded ==
    <<" ", "A", "@", "B", ".", "c", " ">>
S_empid_mail ==
    <<"e", "m", "p", "l", "o", "y", "e", "e", "_", "i", "d", "@", "x", ".", "y">>
S_nodot ==
    <<"a", ".", "b", "@", "c">>
S_noat ==
    <<"a", "b", ".", "c">>
S_Engineering ==
    <<"E", "n", "g", "i", "n", "e", "e", "r", "i", "n", "g">>
S_Marketing ==
    <<"M", "a", "r", "k", "e", "t", "i", "n", "g">>
S_Finance ==
    <<"F", "i", "n", "a", "n", "c", "e">>
S_Operations ==
    <<"O", "p", "e", "r", "a", "t", "i", "o", "n", "s">>
S_Design ==
    <<"D", "e", "s", "i", "g", "n">>
S_Product ==
    <<"P", "r", "o", "d", "u", "c", "t">>
S_HR ==
    <<"H", "R">>
S_Sales ==
    <<"S", "a", "l", "e", "s">>
S_hr ==
    <<"h", "r">>
S_Present ==
    <<"P", "r", "e", "s", "e", "n", "t">>
S_Absent ==
    <<"A", "b", "s", "e", "n", "t">>
S_present ==
    <<"p", "r", "e", "s", "e", "n", "t">>
S_d_iso ==
    <<"2", "0", "2", "4", "-", "0", "1", "-", "0", "5">>
S_d_iso6 ==
    <<"2", "0", "2", "4", "-", "0", "1", "-", "0", "6">>
S_d_short ==
    <<"2", "0", "2", "4", "-", "1", "-", "5">>
S_d_feb30 ==
    <<"2", "0", "2", "4", "-", "0", "2", "-", "3", "0">>
S_d_m13 ==
    <<"2", "0", "2", "4", "-", "1", "3", "-", "0", "1">>
S_d_yy ==
    <<"2", "4", "-", "0", "1", "-", "0", "5">>
S_d_slash ==
    <<"2", "0", "2", "4", "/", "0", "1", "/", "0", "5">>
S_d_trail ==
    <<"2", "0", "2", "4", "-", "0", "1", "-", "0", "5", " ">>
S_d_nonleap ==
    <<"2", "0", "2", "3", "-", "0", "2", "-", "2", "9">>
S_employee_id ==
    <<"e", "m", "p", "l", "o", "y", "e", "e", "_", "i", "d">>
S_email ==
    <<"e", "m", "a", "i", "l">>
S_employee_id_1 ==
    <<"e", "m", "p", "l", "o", "y", "e", "e", "_", "i", "d", "_", "1">>
S_email_1 ==
    <<"e", "m", "a", "i", "l", "_", "1">>
S_E11000 ==
    <<"E", "1", "1", "0", "0", "0", " ", "d", "u", "p", "l", "i", "c", "a", "t", "e", " ", "k", "e", "y", " ", "e", "r", "r", "o", "r", " ", "c", "o", "l", "l", "e", "c", "t", "i", "o", "n", ":", " ", "h", "r", "m", "s", "_", "l", "i", "t", "e", ".", "e", "m", "p", "l", "o", "y", "e", "e", "s", " ", "i", "n", "d", "e", "x", ":", " ">>
S_dup_key ==
    <<" ", "d", "u", "p", " ", "k", "e", "y", ":", " ", "{", " ">>
S_colon_quote ==
    <<":", " ", "\"">>
S_quote_brace ==
    <<"\"", " ", "}">>

(* ---------------- string functions of the Python runtime ---------------- *)
UpperChars ==
    <<"A", "B", "C", "D", "E", "F", "G", "H", "I", "J", "K", "L", "M",
      "N", "O", "P", "Q", "R", "S", "T", "U", "V", "W", "X", "Y", "Z">>
LowerChars ==
    <<"a", "b", "c", "d", "e", "f", "g", "h", "i", "j", "k", "l", "m",
      "n", "o", "p", "q", "r", "s", "t", "u", "v", "w", "x", "y", "z">>
DigitChars ==
    <<"0", "1", "2", "3", "4", "5", "6", "7", "8", "9">>

IsSpace(c) == c = " "

\* str.strip(): drop leading and trailing whitespace
Strip(s) ==
    LET keep == {i \in 1..Len(s) : ~IsSpace(s[i])}
    IN  IF keep = {} THEN <<>>
        ELSE LET lo == CHOOSE i \in keep : \A j \in keep : i <= j
                 hi == CHOOSE i \in keep : \A j \in keep : j <= i
             IN  SubSeq(s, lo, hi)

LowerChar(c) ==
    IF \E i \in 1..26 : UpperChars[i] = c
    THEN LowerChars[CHOOSE i \in 1..26 : UpperChars[i] = c]
    ELSE c

\* str.lower()
Lower(s) == [i \in 1..Len(s) |-> LowerChar(s[i])]

\* Python's  sub in s
Contains(s, sub) ==
    \E i \in 1..(Len(s) - Len(sub) + 1) : SubSeq(s, i, i + Len(sub) - 1) = sub

\* s.split("@")[-1]: what follows the last "@", the whole string if none
AfterLastAt(s) ==
    LET ats == {i \in 1..Len(s) : s[i] = "@"}
    IN  IF ats = {} THEN s
        ELSE SubSeq(s, (CHOOSE i \in ats : \A j \in ats : j <= i) + 1, Len(s))

IsDigit(c) == \E i \in 1..10 : DigitChars[i] = c
DigitVal(c) == (CHOOSE i \in 1..10 : DigitChars[i] = c) - 1

(* ---------------- datetime.strptime(v, "%Y-%m-%d") ---------------- *)
\* %m is the regex 1[0-2]|0[1-9]|[1-9]; the "-" that follows makes the
\* matcher fall back from a two-character alternative to the one-character one
MonthLens(r) ==
    {n \in {1, 2} :
        /\ Len(r) >= n + 1
        /\ r[n + 1] = "-"
        /\ IF n = 2
           THEN \/ r[1] = "1" /\ r[2] \in {"0", "1", "2"}
                \/ r[1] = "0" /\ IsDigit(r[2]) /\ r[2] # "0"
           ELSE IsDigit(r[1]) /\ r[1] # "0"}

\* %d is the regex 3[0-1]|[1-2]\d|0[1-9]|[1-9]| [1-9]; nothing follows it in
\* the format, so the first alternative that matches is the match (0 = none)
DayLen(r) ==
    IF Len(r) >= 2 /\ r[1] = "3" /\ r[2] \in {"0", "1"} THEN 2
    ELSE IF Len(r) >= 2 /\ r[1] \in {"1", "2"} /\ IsDigit(r[2]) THEN 2
    ELSE IF Len(r) >= 2 /\ r[1] = "0" /\ IsDigit(r[2]) /\ r[2] # "0" THEN 2
    ELSE IF Len(r) >= 1 /\ IsDigit(r[1]) /\ r[1] # "0" THEN 1
    ELSE IF Len(r) >= 2 /\ r[1] = " " /\ IsDigit(r[2]) /\ r[2] # "0" THEN 2
    ELSE 0

NumVal(r) ==
    IF Len(r) = 1 THEN DigitVal(r[1])
    ELSE IF r[1] = " " THEN DigitVal(r[2])
    ELSE 10 * DigitVal(r[1]) + DigitVal(r[2])

IsLeap(y) == (y % 4 = 0) /\ ((y % 100 # 0) \/ (y % 400 = 0))

DaysInMonth(y, m) ==
    IF m = 2 THEN (IF IsLeap(y) THEN 29 ELSE 28)
    ELSE IF m \in {4, 6, 9, 11} THEN 30
    ELSE 31

\* the fields strptime extracts, or <<>> when it raises ValueError
Strptime(v) ==
    IF ~(/\ Len(v) >= 5
         /\ \A i \in 1..4 : IsDigit(v[i])
         /\ v[5] = "-")
    THEN <<>>
    ELSE LET rest == SubSeq(v, 6, Len(v))
             ml   == MonthLens(rest)
         IN  IF ml = {} THEN <<>>
             ELSE LET n    == CHOOSE k \in ml : \A j \in ml : j <= k
                      drest == SubSeq(rest, n + 2, Len(rest))
                      dl   == DayLen(drest)
                      y    == 1000 * DigitVal(v[1]) + 100 * DigitVal(v[2])
                              + 10 * DigitVal(v[3]) + DigitVal(v[4])
                  IN  IF dl = 0 \/ dl # Len(drest) THEN <<>>
                      ELSE LET m == NumVal(SubSeq(rest, 1, n))
                               d == NumVal(drest)
                           IN  IF y >= 1 /\ d <= DaysInMonth(y, m)
                               THEN <<y, m, d>>
                               ELSE <<>>

(* ---------------- Models: field validators ---------------- *)
DEPARTMENTS ==
    <<S_Engineering, S_Marketing, S_Sales, S_HR, S_Finance, S_Operations,
      S_Design, S_Product>>

InList(v, list) == \E i \in 1..Len(list) : list[i] = v

validate_employee_id(v) ==
    LET s == Strip(v)
    IN  IF s = <<>> THEN [ok |-> FALSE, v |-> s, err |-> "EmptyField"]
        ELSE [ok |-> TRUE, v |-> s, err |-> "none"]

validate_full_name(v) ==
    LET s == Strip(v)
    IN  IF Len(s) < 2 THEN [ok |-> FALSE, v |-> s, err |-> "TooShort"]
        ELSE [ok |-> TRUE, v |-> s, err |-> "none"]

\* faulty variant: the checks run on the normalised text, the text as sent
\* is returned
validate_email_AsSent(v) ==
    LET s == Lower(Strip(v))
    IN  IF ~Contains(s, <<"@">>) \/ ~Contains(AfterLastAt(s), <<".">>)
        THEN [ok |-> FALSE, v |-> v, err |-> "InvalidEmail"]
        ELSE [ok |-> TRUE, v |-> v, err |-> "none"]

validate_email(v) ==
    LET s == Lower(Strip(v))
    IN  IF ~Contains(s, <<"@">>) \/ ~Contains(AfterLastAt(s), <<".">>)
        THEN [ok |-> FALSE, v |-> s, err |-> "InvalidEmail"]
        ELSE [ok |-> TRUE, v |-> s, err |-> "none"]

validate_department(v) ==
    IF ~InList(v, DEPARTMENTS) THEN [ok |-> FALSE, v |-> v, err |-> "InvalidEnum"]
    ELSE [ok |-> TRUE, v |-> v, err |-> "none"]

validate_status(v) ==
    IF v \notin {S_Present, S_Absent}
    THEN [ok |-> FALSE, v |-> v, err |-> "InvalidEnum"]
    ELSE [ok |-> TRUE, v |-> v, err |-> "none"]

validate_date(v) ==
    IF Strptime(v) = <<>> THEN [ok |-> FALSE, v |-> v, err |-> "InvalidDate"]
    ELSE [ok |-> TRUE, v |-> v, err |-> "none"]

\* pydantic runs every field validator and reports all failures together
EmployeeCreate(in) ==
    LET rid == validate_employee_id(in.employee_id)
        rfn == validate_full_name(in.full_name)
        rem == validate_email(in.email)
        rdp == validate_department(in.department)
        all == {rid, rfn, rem, rdp}
    IN  [ok     |-> \A r \in all : r.ok,
         errors |-> {r.err : r \in {x \in all : ~x.ok}},
         model  |-> [employee_id |-> rid.v, full_name |-> rfn.v,
                     email |-> rem.v, department |-> rdp.v]]

\* employee_id has no validator here: it is taken as sent
AttendanceCreate(in) ==
    LET rdt == validate_date(in.date)
        rst == validate_status(in.status)
        all == {rdt, rst}
    IN  [ok     |-> \A r \in all : r.ok,
         errors |-> {r.err : r \in {x \in all : ~x.ok}},
         model  |-> [employee_id |-> in.employee_id, date |-> rdt.v,
                     status |-> rst.v]]

(* ---------------- requests the clients send ---------------- *)
EmployeeBody(i, n, e, d) ==
    [employee_id |-> i, full_name |-> n, email |-> e, department |-> d]

CreateInputs ==
    {EmployeeBody(S_E1, S_Al, S_ab_c, S_HR),
     EmployeeBody(S_E1_padded, S_Al, S_AB_c_padded, S_Sales),
     EmployeeBody(S_E2, S_Al, S_ab_c, S_HR),
     EmployeeBody(S_E2, S_Al, S_empid_mail, S_Sales),
     EmployeeBody(S_E1, S_Al, S_empid_mail, S_HR),
     EmployeeBody(S_blank, S_A_padded, S_noat, S_hr),
     EmployeeBody(S_E1, S_Al, S_nodot, S_HR)}

AttendanceBody(i, d, s) == [employee_id |-> i, date |-> d, status |-> s]

MarkInputs ==
    [employee_id : {S_E1, S_E2}, date : {S_d_iso, S_d_short},
     status : {S_Present, S_Absent}]
    \cup {AttendanceBody(S_E1, S_d_iso6, S_Present),
          AttendanceBody(S_E1_padded, S_d_iso, S_Present),
          AttendanceBody(S_E1, S_d_iso, S_present),
          AttendanceBody(S_E1, S_d_feb30, S_present)}
    \cup {AttendanceBody(S_E1, d, S_Present) :
              d \in {S_d_feb30, S_d_m13, S_d_yy, S_d_slash, S_d_trail,
                     S_d_nonleap}}

\* the validators are pure: their results per request body, tabulated once
EmployeeCreateOf == [in \in CreateInputs |-> EmployeeCreate(in)] @@ <<>>
AttendanceCreateOf == [in \in MarkInputs |-> AttendanceCreate(in)] @@ <<>>

PathIds == {S_E1, S_E2}
PathDates == {S_d_iso, S_d_short}

\* an optional query parameter: absent (None) or sent with a value
Absent == [given |-> FALSE, v |-> <<>>]
Sent(v) == [given |-> TRUE, v |-> v]

\* GET /attendance?employee_id=&date=
ListInputs ==
    {[employee_id |-> Absent, date |-> Absent],
     [employee_id |-> Sent(S_E1), date |-> Absent],
     [employee_id |-> Absent, date |-> Sent(S_d_iso)],
     [employee_id |-> Sent(S_E1), date |-> Sent(S_d_short)],
     [employee_id |-> Sent(<<>>), date |-> Absent],
     [employee_id |-> Absent, date |-> Sent(<<>>)]}

\* date.today().isoformat() on the day the requests are served
Today == S_d_iso

(* ---------------- state ---------------- *)
VARIABLES
    employees,   \* employees_coll: the stored employee documents
    attendance,  \* attendance_coll: the stored attendance documents
    clock,       \* requests started so far; utcnow() and uuid4() draw on it
    pc,          \* per request slot: the pymongo call the handler is before
    local,       \* per request slot: the handler's local variables
    resp,        \* the response most recently sent, with its request's number
    overlapped   \* history: some request started while another was in flight

vars == <<employees, attendance, clock, pc, local, resp, overlapped>>

NoLocal == [req |-> 0]
NoResp == [req |-> 0, op |-> "none", status |-> 0, outcome |-> "none",
           body |-> <<>>]

Response(req, op, status, outcome, body) ==
    [req |-> req, op |-> op, status |-> status, outcome |-> outcome,
     body |-> body]

(* ---------------- pymongo calls, each atomic on its collection ---------- *)
\* E11000 text of the server, which names the index and the duplicated value
DupKeyMsg(index, field, value) ==
    S_E11000 \o index \o S_dup_key \o field \o S_colon_quote \o value
        \o S_quote_brace

\* faulty variant: the unique index on email is missing
InsertOne_NoEmailIndex(coll, rec) ==
    IF \E e \in coll : e.employee_id = rec.employee_id
    THEN [ok |-> FALSE, coll |-> coll,
          msg |-> DupKeyMsg(S_employee_id_1, S_employee_id, rec.employee_id)]
    ELSE [ok |-> TRUE, coll |-> coll \cup {rec}, msg |-> <<>>]

\* faulty variant: the document is written before the email index rejects it
InsertOne_StoresDuplicate(coll, rec) ==
    IF \E e \in coll : e.employee_id = rec.employee_id
    THEN [ok |-> FALSE, coll |-> coll,
          msg |-> DupKeyMsg(S_employee_id_1, S_employee_id, rec.employee_id)]
    ELSE IF \E e \in coll : e.email = rec.email
    THEN [ok |-> FALSE, coll |-> coll \cup {rec},
          msg |-> DupKeyMsg(S_email_1, S_email, rec.email)]
    ELSE [ok |-> TRUE, coll |-> coll \cup {rec}, msg |-> <<>>]

\* faulty variant: a document of a stored employee_id overwrites that
\* employee before the index rejects the insert
InsertOne_Overwrites(coll, rec) ==
    IF \E e \in coll : e.employee_id = rec.employee_id
    THEN [ok |-> FALSE,
          coll |-> {e \in coll : e.employee_id # rec.employee_id}
                   \cup {rec},
          msg |-> DupKeyMsg(S_employee_id_1, S_employee_id, rec.employee_id)]
    ELSE IF \E e \in coll : e.email = rec.email
    THEN [ok |-> FALSE, coll |-> coll,
          msg |-> DupKeyMsg(S_email_1, S_email, rec.email)]
    ELSE [ok |-> TRUE, coll |-> coll \cup {rec}, msg |-> <<>>]

\* insert_one under the two unique indexes, checked in creation order
InsertOne(coll, rec) ==
    IF \E e \in coll : e.employee_id = rec.employee_id
    THEN [ok |-> FALSE, coll |-> coll,
          msg |-> DupKeyMsg(S_employee_id_1, S_employee_id, rec.employee_id)]
    ELSE IF \E e \in coll : e.email = rec.email
    THEN [ok |-> FALSE, coll |-> coll,
          msg |-> DupKeyMsg(S_email_1, S_email, rec.email)]
    ELSE [ok |-> TRUE, coll |-> coll \cup {rec}, msg |-> <<>>]

\* faulty variant: the filter is dropped, any stored document matches
FindByEmployeeId_Any(coll, eid) == coll

\* find({"employee_id": eid}): the matching documents
FindByEmployeeId(coll, eid) == {e \in coll : e.employee_id = eid}

\* faulty variant: the status is left out of the filter
CountDocuments_AnyStatus(coll, eid, status) ==
    Cardinality({r \in coll : r.employee_id = eid})

\* count_documents({"employee_id": eid, "status": status})
CountDocuments(coll, eid, status) ==
    Cardinality({r \in coll : r.employee_id = eid /\ r.status = status})

\* faulty variant: the cascade removes nothing
DeleteMany_NoCascade(coll, eid) == coll

\* delete_many({"employee_id": eid})
DeleteMany(coll, eid) == {r \in coll : r.employee_id # eid}

\* faulty variant: the date is left out of the filter
FindByKey_AnyDate(coll, eid, d) == {r \in coll : r.employee_id = eid}

\* find({"employee_id": eid, "date": d})
FindByKey(coll, eid, d) == {r \in coll : r.employee_id = eid /\ r.date = d}

\* faulty variant: insert_one in place of the upsert, no unique index
UpdateOneUpsert_InsertOnly(coll, eid, d, record) ==
    [matched_count |-> 0, coll |-> coll \cup {record}]

\* faulty variant: $set leaves the status of a matched document alone
UpdateOneUpsert_KeepStatus(coll, eid, d, record) ==
    LET matched == FindByKey(coll, eid, d)
    IN  IF matched # {}
        THEN LET t == CHOOSE r \in matched : TRUE
             IN  [matched_count |-> 1,
                  coll |-> (coll \ {t}) \cup
                           {[t EXCEPT !.id = record.id,
                                      !.marked_at = record.marked_at]}]
        ELSE [matched_count |-> 0, coll |-> coll \cup {record}]

\* faulty variant: matched_count is not reported
UpdateOneUpsert_NoMatchedCount(coll, eid, d, record) ==
    [matched_count |-> 0,
     coll |-> {r \in coll : ~(r.employee_id = eid /\ r.date = d)}
              \cup {record}]

\* update_one(key, {"$set": record}, upsert=True)
UpdateOneUpsert(coll, eid, d, record) ==
    LET matched == FindByKey(coll, eid, d)
    IN  IF matched # {}
        THEN LET t == CHOOSE r \in matched : TRUE
             IN  [matched_count |-> 1,
                  coll |-> (coll \ {t}) \cup
                           {[t EXCEPT !.employee_id = record.employee_id,
                                      !.date = record.date,
                                      !.status = record.status,
                                      !.id = record.id,
                                      !.marked_at = record.marked_at]}]
        ELSE [matched_count |-> 0, coll |-> coll \cup {record}]

\* Python truthiness of an Optional[str]: None and "" are both false
Truthy(param) == param.given /\ param.v # <<>>

\* faulty variant: the date filter never reaches the query
BuildQuery_NoDate(employee_id, date_filter) ==
    IF Truthy(employee_id) THEN {<<"employee_id", employee_id.v>>} ELSE {}

\* the query dict as its set of (field, value) items
BuildQuery(employee_id, date_filter) ==
    (IF Truthy(employee_id) THEN {<<"employee_id", employee_id.v>>} ELSE {})
    \cup (IF Truthy(date_filter) THEN {<<"date", date_filter.v>>} ELSE {})

\* find(query): the documents equal to the query on each of its fields
FindAttendance(coll, query) ==
    {r \in coll : \A item \in query : r[item[1]] = item[2]}

\* code points of the characters a stored date can hold
CharCode(c) ==
    IF c = " " THEN 32
    ELSE IF c = "-" THEN 45
    ELSE 48 + DigitVal(c)

\* binary string comparison of the server: a < b
RECURSIVE StrLess(_, _)
StrLess(a, b) ==
    IF b = <<>> THEN FALSE
    ELSE IF a = <<>> THEN TRUE
    ELSE IF CharCode(Head(a)) # CharCode(Head(b))
    THEN CharCode(Head(a)) < CharCode(Head(b))
    ELSE StrLess(Tail(a), Tail(b))

\* the orders a cursor can deliver a set of documents in
RECURSIVE Orders(_)
Orders(docs) ==
    IF docs = {} THEN {<<>>}
    ELSE UNION {{<<r>> \o rest : rest \in Orders(docs \ {r})} : r \in docs}

\* faulty variant: sort("date", 1)
SortDateDesc_Ascending(docs) ==
    {s \in Orders(docs) :
        \A i \in 1..Len(s) : \A j \in 1..Len(s) :
            i < j => ~StrLess(s[j].date, s[i].date)}

\* sort("date", -1): no document before one of a greater date string; the
\* order among equal dates is the server's choice
SortDateDesc(docs) ==
    {s \in Orders(docs) :
        \A i \in 1..Len(s) : \A j \in 1..Len(s) :
            i < j => ~StrLess(s[i].date, s[j].date)}

\* count_documents({"date": today, "status": status})
CountByDateStatus(coll, today, status) ==
    Cardinality({r \in coll : r.date = today /\ r.status = status})

\* dict.get(key, default)
DictGet(dict, key, default) ==
    IF key \in DOMAIN dict THEN dict[key] ELSE default

\* the empty dict
EmptyDict == [d \in {} |-> 0]

\* faulty variant: the dict starts with every department at zero
DeptDistribution_ZeroFilled(emps, dist) ==
    [d \in {DEPARTMENTS[i] : i \in DOMAIN DEPARTMENTS} |->
        Cardinality({e \in emps : e.department = d})]

\* the loop over the cursor: one more for the department of each document
RECURSIVE DeptDistribution(_, _)
DeptDistribution(emps, dist) ==
    IF emps = {} THEN dist
    ELSE LET emp  == CHOOSE e \in emps : TRUE
             dept == emp.department
         IN  DeptDistribution(emps \ {emp},
                 [d \in DOMAIN dist \cup {dept} |->
                     IF d = dept THEN DictGet(dist, dept, 0) + 1
                     ELSE dist[d]])

\* faulty variant: the result is clamped at zero
NotMarked_Clamped(total_employees, present_today, absent_today) ==
    IF total_employees - present_today - absent_today < 0 THEN 0
    ELSE total_employees - present_today - absent_today

NotMarked(total_employees, present_today, absent_today) ==
    total_employees - present_today - absent_today

(* ---------------- initial state: both collections empty ---------------- *)
Init ==
    /\ employees = {}
    /\ attendance = {}
    /\ clock = 0
    /\ pc = [p \in Procs |-> "idle"]
    /\ local = [p \in Procs |-> NoLocal]
    /\ resp = NoResp
    /\ overlapped = FALSE

NoneInFlight == \A q \in Procs : pc[q] = "idle"

\* a request arrives at an idle slot and takes the next request number
Begin(p) ==
    /\ pc[p] = "idle"
    /\ clock < MaxRequests
    /\ clock' = clock + 1
    /\ overlapped' = (overlapped \/ ~NoneInFlight)

Finish(p, r) ==
    /\ pc' = [pc EXCEPT ![p] = "idle"]
    /\ local' = [local EXCEPT ![p] = NoLocal]
    /\ resp' = r

Goto(p, label, l) ==
    /\ pc' = [pc EXCEPT ![p] = label]
    /\ local' = [local EXCEPT ![p] = l]
    /\ resp' = resp

(* ---------------- POST /employees ---------------- *)
create_employee(p, in) ==
    /\ Begin(p)
    /\ UNCHANGED attendance
    /\ LET parsed == EmployeeCreateOf[in]
           record == [employee_id |-> parsed.model.employee_id,
                      full_name   |-> parsed.model.full_name,
                      email       |-> parsed.model.email,
                      department  |-> parsed.model.department,
                      created_at  |-> clock']
           ins    == InsertOne(employees, record)
       IN  IF ~parsed.ok
           THEN /\ UNCHANGED employees
                /\ Finish(p, Response(clock', "create_employee", 422,
                                      "ValidationError", parsed.errors))
           ELSE /\ employees' = ins.coll
                /\ Finish(p,
                     IF ins.ok
                     THEN Response(clock', "create_employee", 201,
                                   "Created", record)
                     ELSE IF Contains(ins.msg, S_employee_id)
                     THEN Response(clock', "create_employee", 409,
                                   "DuplicateId", <<>>)
                     ELSE IF Contains(ins.msg, S_email)
                     THEN Response(clock', "create_employee", 409,
                                   "DuplicateEmail", <<>>)
                     ELSE Response(clock', "create_employee", 409,
                                   "Duplicate", <<>>))

(* ---------------- GET /employees/{employee_id} ---------------- *)
get_employee_find(p, employee_id) ==
    /\ Begin(p)
    /\ UNCHANGED <<employees, attendance>>
    /\ LET found == FindByEmployeeId(employees, employee_id)
       IN  IF found = {}
           THEN Finish(p, Response(clock', "get_employee", 404, "NotFound",
                                   <<>>))
           ELSE Goto(p, "get_employee_count",
                     [req |-> clock', employee_id |-> employee_id,
                      emp |-> CHOOSE e \in found : TRUE])

get_employee_count(p) ==
    /\ pc[p] = "get_employee_count"
    /\ UNCHANGED <<employees, attendance, clock, overlapped>>
    /\ Finish(p, Response(local[p].req, "get_employee", 200, "OK",
                  [emp |-> local[p].emp,
                   total_present |->
                       CountDocuments(attendance, local[p].employee_id,
                                      S_Present)]))

(* ---------------- GET /employees ---------------- *)
get_employees_find(p) ==
    /\ Begin(p)
    /\ UNCHANGED <<employees, attendance>>
    /\ IF employees = {}
       THEN Finish(p, Response(clock', "get_employees", 200, "OK", {}))
       ELSE Goto(p, "get_employees_count",
                 [req |-> clock', emps |-> employees, out |-> {}])

\* one turn of the loop: count for the next employee of the cursor
get_employees_count(p) ==
    /\ pc[p] = "get_employees_count"
    /\ UNCHANGED <<employees, attendance, clock, overlapped>>
    /\ \E emp \in local[p].emps :
          LET out == local[p].out \cup
                     {[emp |-> emp,
                       total_present |->
                           CountDocuments(attendance, emp.employee_id,
                                          S_Present)]}
              rest == local[p].emps \ {emp}
          IN  IF rest = {}
              THEN Finish(p, Response(local[p].req, "get_employees", 200,
                                      "OK", out))
              ELSE Goto(p, "get_employees_count",
                        [req |-> local[p].req, emps |-> rest, out |-> out])

(* ---------------- DELETE /employees/{employee_id} ---------------- *)
delete_employee_one(p, employee_id) ==
    /\ Begin(p)
    /\ UNCHANGED attendance
    /\ LET found == FindByEmployeeId(employees, employee_id)
       IN  IF found = {}
           THEN /\ UNCHANGED employees
                /\ Finish(p, Response(clock', "delete_employee", 404,
                                      "NotFound", <<>>))
           ELSE /\ employees' = employees \ {CHOOSE e \in found : TRUE}
                /\ Goto(p, "delete_employee_many",
                        [req |-> clock', employee_id |-> employee_id])

delete_employee_many(p) ==
    /\ pc[p] = "delete_employee_many"
    /\ UNCHANGED <<employees, clock, overlapped>>
    /\ attendance' = DeleteMany(attendance, local[p].employee_id)
    /\ Finish(p, Response(local[p].req, "delete_employee", 200, "Deleted",
                          [employee_id |-> local[p].employee_id]))

(* ---------------- POST /attendance ---------------- *)
\* uuid4() is a value no other request draws: the request's own number
mark_attendance_find(p, in) ==
    /\ Begin(p)
    /\ UNCHANGED <<employees, attendance>>
    /\ LET parsed == AttendanceCreateOf[in]
       IN  IF ~parsed.ok
           THEN Finish(p, Response(clock', "mark_attendance", 422,
                                   "ValidationError", parsed.errors))
           ELSE IF FindByEmployeeId(employees, parsed.model.employee_id) = {}
           THEN Finish(p, Response(clock', "mark_attendance", 404,
                                   "EmployeeNotFound", <<>>))
           ELSE Goto(p, "mark_attendance_update",
                     [req |-> clock',
                      record |-> [employee_id |-> parsed.model.employee_id,
                                  date        |-> parsed.model.date,
                                  status      |-> parsed.model.status,
                                  id          |-> clock',
                                  marked_at   |-> clock']])

mark_attendance_update(p) ==
    /\ pc[p] = "mark_attendance_update"
    /\ UNCHANGED <<employees, clock, overlapped>>
    /\ LET record == local[p].record
           result == UpdateOneUpsert(attendance, record.employee_id,
                                     record.date, record)
       IN  /\ attendance' = result.coll
           /\ Finish(p, Response(local[p].req, "mark_attendance", 201,
                                 IF result.matched_count > 0
                                 THEN "updated" ELSE "created",
                                 [record |-> record]))

(* ---------------- DELETE /attendance/{employee_id}/{date} -------------- *)
delete_attendance(p, employee_id, date) ==
    /\ Begin(p)
    /\ UNCHANGED employees
    /\ LET found == FindByKey(attendance, employee_id, date)
       IN  IF found = {}
           THEN /\ UNCHANGED attendance
                /\ Finish(p, Response(clock', "delete_attendance", 404,
                                      "NotFound", <<>>))
           ELSE /\ attendance' = attendance \ {CHOOSE r \in found : TRUE}
                /\ Finish(p, Response(clock', "delete_attendance", 200,
                                      "Deleted", <<>>))

(* ---------------- GET /attendance ---------------- *)
get_all_attendance(p, in) ==
    /\ Begin(p)
    /\ UNCHANGED <<employees, attendance>>
    /\ LET query == BuildQuery(in.employee_id, in.date)
       IN  \E records \in SortDateDesc(FindAttendance(attendance, query)) :
               Finish(p, Response(clock', "get_all_attendance", 200, "OK",
                                  records))

(* ---------------- GET /dashboard/summary ---------------- *)
summary_total(p) ==
    /\ Begin(p)
    /\ UNCHANGED <<employees, attendance>>
    /\ Goto(p, "summary_present",
            [req |-> clock', total_employees |-> Cardinality(employees)])

summary_present(p) ==
    /\ pc[p] = "summary_present"
    /\ UNCHANGED <<employees, attendance, clock, overlapped>>
    /\ Goto(p, "summary_absent",
            [req |-> local[p].req,
             total_employees |-> local[p].total_employees,
             present_today |->
                 CountByDateStatus(attendance, Today, S_Present)])

summary_absent(p) ==
    /\ pc[p] = "summary_absent"
    /\ UNCHANGED <<employees, attendance, clock, overlapped>>
    /\ Goto(p, "summary_departments",
            [req |-> local[p].req,
             total_employees |-> local[p].total_employees,
             present_today |-> local[p].present_today,
             absent_today |->
                 CountByDateStatus(attendance, Today, S_Absent)])

summary_departments(p) ==
    /\ pc[p] = "summary_departments"
    /\ UNCHANGED <<employees, attendance, clock, overlapped>>
    /\ Finish(p, Response(local[p].req, "get_dashboard_summary", 200, "OK",
                  [total_employees |-> local[p].total_employees,
                   present_today |-> local[p].present_today,
                   absent_today |-> local[p].absent_today,
                   not_marked_today |->
                       NotMarked(local[p].total_employees,
                                 local[p].present_today,
                                 local[p].absent_today),
                   department_distribution |->
                       DeptDistribution(employees, EmptyDict),
                   today |-> Today]))

(* ---------------- specifications ---------------- *)
\* requests of different callers overlap: any slot takes its next step
Next ==
    \E p \in Procs :
        \/ \E in \in CreateInputs : create_employee(p, in)
        \/ \E e \in PathIds : get_employee_find(p, e)
        \/ get_employee_count(p)
        \/ get_employees_find(p)
        \/ get_employees_count(p)
        \/ \E e \in PathIds : delete_employee_one(p, e)
        \/ delete_employee_many(p)
        \/ \E in \in MarkInputs : mark_attendance_find(p, in)
        \/ mark_attendance_update(p)
        \/ \E e \in PathIds : \E d \in PathDates : delete_attendance(p, e, d)
        \/ \E in \in ListInputs : get_all_attendance(p, in)
        \/ summary_total(p)
        \/ summary_present(p)
        \/ summary_absent(p)
        \/ summary_departments(p)

Spec == Init /\ [][Next]_vars

\* requests arrive one at a time: a request starts only when none is in flight
SeqNext ==
    \E p \in Procs :
        \/ NoneInFlight /\ \E in \in CreateInputs : create_employee(p, in)
        \/ NoneInFlight /\ \E e \in PathIds : get_employee_find(p, e)
        \/ get_employee_count(p)
        \/ NoneInFlight /\ get_employees_find(p)
        \/ get_employees_count(p)
        \/ NoneInFlight /\ \E e \in PathIds : delete_employee_one(p, e)
        \/ delete_employee_many(p)
        \/ NoneInFlight /\ \E in \in MarkInputs : mark_attendance_find(p, in)
        \/ mark_attendance_update(p)
        \/ NoneInFlight /\ \E e \in PathIds : \E d \in PathDates :
                               delete_attendance(p, e, d)
        \/ NoneInFlight /\ \E in \in ListInputs : get_all_attendance(p, in)
        \/ NoneInFlight /\ summary_total(p)
        \/ summary_present(p)
        \/ summary_absent(p)
        \/ summary_departments(p)

SeqSpec == Init /\ [][SeqNext]_vars

(* ---------------- what the properties speak of ---------------- *)
SameKey(r, s) == r.employee_id = s.employee_id /\ r.date = s.date

Stored(coll, eid) == \E e \in coll : e.employee_id = eid

\* this step sends a response
Responds == resp' # resp

CreateSucceeded ==
    Responds /\ resp'.op = "create_employee" /\ resp'.outcome = "Created"

MarkCompleted ==
    Responds /\ resp'.op = "mark_attendance" /\ resp'.status = 201

(* ---------------- C1 ---------------- *)
\* C1: in every reachable state, whatever marks, attendance deletes and
\* employee deletes ran or overlapped, at most one attendance record is
\* stored for each (employee_id, date) pair.
C1_AttendanceKeyUnique ==
    \A r \in attendance : \A s \in attendance : SameKey(r, s) => r = s

\* two marks of one key overlap: the one that started later has written its
\* record, the one that started earlier has passed the employee check and
\* is about to upsert
C1_Witness ==
    \E p \in Procs :
        /\ pc[p] = "mark_attendance_update"
        /\ \E r \in attendance :
              SameKey(r, local[p].record) /\ r.id > local[p].req

(* ---------------- C2 ---------------- *)
\* C2: no two stored employees share an employee_id and no two share an
\* email, in every reachable state; and a create returns success only when
\* no stored employee had its employee_id or its email at the moment of its
\* insert, its record being stored by that step, so of creates that collide
\* at most one succeeds whatever their order.
C2_EmployeeKeysUnique ==
    /\ [](\A e \in employees : \A f \in employees :
             (e.employee_id = f.employee_id \/ e.email = f.email) => e = f)
    /\ [][CreateSucceeded =>
             /\ ~\E e \in employees :
                    \/ e.employee_id = resp'.body.employee_id
                    \/ e.email = resp'.body.email
             /\ resp'.body \in employees']_vars

\* two employees are stored and a further create was refused as a conflict
C2_Witness ==
    /\ Cardinality(employees) = 2
    /\ resp.op = "create_employee"
    /\ resp.status = 409

(* ---------------- C3 ---------------- *)
\* C3: with requests run one at a time, when delete_employee(E) succeeds the
\* store holds neither employee E nor any attendance record of E; a get(E)
\* issued while E is not stored returns NotFound; and E comes to be stored
\* again only by a successful create.
C3_DeleteCascades ==
    [][/\ (Responds /\ resp'.op = "delete_employee"
                    /\ resp'.outcome = "Deleted") =>
              /\ ~Stored(employees', resp'.body.employee_id)
              /\ ~Stored(attendance', resp'.body.employee_id)
       /\ \A p \in Procs : \A e \in PathIds :
              (get_employee_find(p, e) /\ ~Stored(employees, e)) =>
                  /\ resp'.req = clock'
                  /\ resp'.op = "get_employee"
                  /\ resp'.outcome = "NotFound"
       /\ \A e \in PathIds :
              (~Stored(employees, e) /\ Stored(employees', e)) =>
                  CreateSucceeded]_vars

\* delete_one has removed the employee while attendance records of it are
\* stored: the cascade is the next step
C3_Witness ==
    \E p \in Procs :
        /\ pc[p] = "delete_employee_many"
        /\ ~Stored(employees, local[p].employee_id)
        /\ Stored(attendance, local[p].employee_id)

(* ---------------- C4 ---------------- *)
\* C4: when a mark completes, the store holds exactly one record for its
\* (employee_id, date) key and that record's status is the status this mark
\* submitted; so after marks of one key completing one after another the
\* status is that of the most recent one.
C4_LastMarkWins ==
    [][MarkCompleted =>
          LET rec  == resp'.body.record
              held == {r \in attendance' : SameKey(r, rec)}
          IN  /\ Cardinality(held) = 1
              /\ \A r \in held : r.status = rec.status]_vars

\* a second mark of a key has updated the record made by an earlier one
C4_Witness ==
    /\ resp.op = "mark_attendance"
    /\ resp.outcome = "updated"
    /\ \E r \in attendance :
          /\ SameKey(r, resp.body.record)
          /\ r.status = S_Absent
          /\ r.status = resp.body.record.status

(* ---------------- C5 ---------------- *)
\* C5: a create whose employee_id is that of a stored employee ends in the
\* duplicate-ID conflict, and a create whose employee_id is new but whose
\* normalized email is that of a stored employee ends in the duplicate-email
\* conflict, for every choice of ids and emails.
C5_ConflictNamesConstraint ==
    [][\A p \in Procs : \A in \in CreateInputs :
          (create_employee(p, in) /\ EmployeeCreateOf[in].ok) =>
              LET m       == EmployeeCreateOf[in].model
                  idDup   == \E e \in employees :
                                 e.employee_id = m.employee_id
                  mailDup == \E e \in employees : e.email = m.email
              IN  /\ idDup => resp'.outcome = "DuplicateId"
                  /\ (~idDup /\ mailDup) =>
                         resp'.outcome = "DuplicateEmail"]_vars

(* ---------------- C6 ---------------- *)
\* C6: with requests run one at a time, a mark whose employee_id no stored
\* employee has fails and writes nothing, with EmployeeNotFound when its
\* body passes validation (validation runs first); and every attendance
\* record that a step writes has the employee_id of a stored employee.
C6_MarkNeedsEmployee ==
    [][/\ \A p \in Procs : \A in \in MarkInputs :
              (mark_attendance_find(p, in)
                  /\ ~Stored(employees, in.employee_id)) =>
                  /\ resp'.req = clock'
                  /\ resp'.status >= 400
                  /\ AttendanceCreateOf[in].ok =>
                         resp'.outcome = "EmployeeNotFound"
                  /\ attendance' = attendance
       /\ \A r \in attendance' \ attendance :
              Stored(employees, r.employee_id)]_vars

\* an employee is stored, and a mark for another employee_id was refused
C6_Witness ==
    /\ resp.op = "mark_attendance"
    /\ resp.outcome = "EmployeeNotFound"
    /\ employees # {}

(* ---------------- C7 ---------------- *)
\* C7: with requests run one at a time, the total_present that get(E)
\* returns, and the one list() returns for each stored employee E, is the
\* number of stored attendance records with employee_id E and status
\* Present; list() returns every stored employee.
PresentRecords(coll, eid) ==
    {r \in coll : r.employee_id = eid /\ r.status = S_Present}

C7_TotalPresent ==
    [][/\ (Responds /\ resp'.op = "get_employee" /\ resp'.status = 200) =>
              resp'.body.total_present =
                  Cardinality(PresentRecords(attendance',
                                             resp'.body.emp.employee_id))
       /\ (Responds /\ resp'.op = "get_employees") =>
              /\ {x.emp : x \in resp'.body} = employees'
              /\ \A x \in resp'.body :
                     x.total_present =
                         Cardinality(PresentRecords(attendance',
                                                    x.emp.employee_id))]_vars

\* get(E) has answered 1 for an employee marked Present once
C7_Witness ==
    /\ resp.op = "get_employee"
    /\ resp.status = 200
    /\ resp.body.total_present = 1
    /\ \E r \in attendance : r.employee_id = resp.body.emp.employee_id

(* ---------------- C8 ---------------- *)
\* C8: a step that answers a request with an error (validation failure,
\* conflict, EmployeeNotFound, NotFound) leaves the employee collection and
\* the attendance collection as they were; such a request has no other step.
C8_ErrorChangesNothing ==
    [][(Responds /\ resp'.status >= 400) =>
          /\ employees' = employees
          /\ attendance' = attendance
          /\ resp'.req = clock'
          /\ clock' = clock + 1]_vars

\* a request was refused while both collections hold documents
C8_Witness ==
    /\ resp.status >= 400
    /\ employees # {}
    /\ attendance # {}

(* ---------------- C9 ---------------- *)
\* the YYYY-MM-DD textual form of a real calendar date: four digits, "-",
\* two digits, "-", two digits, the month 01..12, the day within the month
IsIsoDate(v) ==
    /\ Len(v) = 10
    /\ \A i \in {1, 2, 3, 4, 6, 7, 9, 10} : IsDigit(v[i])
    /\ v[5] = "-"
    /\ v[8] = "-"
    /\ LET y == 1000 * DigitVal(v[1]) + 100 * DigitVal(v[2])
                + 10 * DigitVal(v[3]) + DigitVal(v[4])
           m == 10 * DigitVal(v[6]) + DigitVal(v[7])
           d == 10 * DigitVal(v[9]) + DigitVal(v[10])
       IN  /\ y >= 1
           /\ m \in 1..12
           /\ d \in 1..DaysInMonth(y, m)

\* C9: every stored attendance record has a date that is a real calendar
\* date written in the YYYY-MM-DD form and a status of Present or Absent.
C9_StoredDatesIso ==
    \A r \in attendance :
        /\ IsIsoDate(r.date)
        /\ r.status \in {S_Present, S_Absent}

(* ---------------- C10 ---------------- *)
\* C10: the id of the record of an (employee_id, date) key is the same
\* after every step that leaves a record of that key stored.
C10_IdStable ==
    [][\A r \in attendance : \A s \in attendance' :
          SameKey(r, s) => s.id = r.id]_vars

(* ---------------- C11 ---------------- *)
Elements(s) == {s[i] : i \in DOMAIN s}

\* the stored records a list with these parameters is to return, where
\* Supplied(param) says which parameters count as a filter
ListExpected(in, Supplied(_)) ==
    {r \in attendance :
        /\ Supplied(in.employee_id) => r.employee_id = in.employee_id.v
        /\ Supplied(in.date) => r.date = in.date.v}

IsGiven(param) == param.given

IsGivenNonEmpty(param) == param.given /\ Len(param.v) > 0

ListReturns(Supplied(_)) ==
    \A p \in Procs : \A in \in ListInputs :
        get_all_attendance(p, in) =>
            /\ resp'.req = clock'
            /\ resp'.status = 200
            /\ Len(resp'.body) = Cardinality(ListExpected(in, Supplied))
            /\ Elements(resp'.body) = ListExpected(in, Supplied)

\* C11 (as stated): a list returns exactly the stored records that agree
\* with every filter parameter sent with the request, whatever its value,
\* and all stored records when none is sent; a list with date = D holds no
\* record of another date, for any D.
C11_ListEveryFilter == [][ListReturns(IsGiven)]_vars

\* C11 (amended): a list returns, each once, exactly the stored records that
\* agree with every filter parameter sent with a non-empty value; a
\* parameter that is absent or sent empty filters nothing, so a list with
\* date = D, D non-empty, holds no record of another date.
C11_ListNonEmptyFilters == [][ListReturns(IsGivenNonEmpty)]_vars

\* a list answered with one of two stored records
C11_Witness ==
    /\ resp.op = "get_all_attendance"
    /\ Cardinality(attendance) = 2
    /\ Len(resp.body) = 1

(* ---------------- C12 ---------------- *)
\* the calendar day a stored date string names, as (year, month, day)
CalendarBefore(a, b) ==
    LET x == Strptime(a)
        y == Strptime(b)
    IN  \/ x[1] < y[1]
        \/ x[1] = y[1] /\ x[2] < y[2]
        \/ x[1] = y[1] /\ x[2] = y[2] /\ x[3] < y[3]

\* C12: the records of a list response are in descending date order: of any
\* two returned records, the one of the later calendar date never comes
\* after the one of the earlier calendar date.
C12_ListCalendarDescending ==
    resp.op = "get_all_attendance" =>
        \A i \in DOMAIN resp.body : \A j \in DOMAIN resp.body :
            i < j => ~CalendarBefore(resp.body[i].date, resp.body[j].date)

(* ---------------- C13 ---------------- *)
SummaryResponds == Responds /\ resp'.op = "get_dashboard_summary"

\* the stored records whose date is today's and whose status is the given one
TodayRecords(status) ==
    {r \in attendance : r.date = Today /\ r.status = status}

\* C13: a summary response carries not_marked_today equal to its
\* total_employees minus its present_today minus its absent_today, below
\* zero when that is the difference; its present_today and absent_today are
\* the numbers of stored attendance records dated today with status Present
\* and Absent, each as of the moment the summary counted it.
C13_NotMarkedIsDifference ==
    [][/\ SummaryResponds =>
              resp'.body.not_marked_today =
                  resp'.body.total_employees - resp'.body.present_today
                      - resp'.body.absent_today
       /\ \A p \in Procs :
              /\ summary_present(p) =>
                     local'[p].present_today =
                         Cardinality(TodayRecords(S_Present))
              /\ summary_absent(p) =>
                     /\ local'[p].absent_today =
                            Cardinality(TodayRecords(S_Absent))
                     /\ local'[p].present_today = local[p].present_today
              /\ summary_departments(p) =>
                     /\ resp'.body.present_today = local[p].present_today
                     /\ resp'.body.absent_today = local[p].absent_today]_vars

\* a summary answered with a negative not_marked_today
C13_Witness ==
    /\ resp.op = "get_dashboard_summary"
    /\ resp.body.not_marked_today < 0

(* ---------------- C14 ---------------- *)
\* no whitespace at either end
IsTrimmed(s) == s = <<>> \/ (s[1] # " " /\ s[Len(s)] # " ")

HasNoUpper(s) ==
    \A i \in 1..Len(s) : \A k \in 1..Len(UpperChars) : s[i] # UpperChars[k]

\* an "@" occurs, and a "." occurs after the last one
HasDotAfterLastAt(s) ==
    \E i \in 1..Len(s) :
        /\ s[i] = "@"
        /\ \A j \in (i + 1)..Len(s) : s[j] # "@"
        /\ \E j \in (i + 1)..Len(s) : s[j] = "."

\* C14: in every reachable state each stored employee has an employee_id
\* that is trimmed and not empty, a full_name that is trimmed and at least
\* two characters long, an email that is trimmed, has no upper-case letter
\* and has a "." after its last "@", and a department among the eight
\* fixed names; and no two stored employees have emails that are equal once
\* trimmed and lower-cased.
C14_StoredEmployeesNormalized ==
    /\ \A e \in employees :
           /\ IsTrimmed(e.employee_id) /\ Len(e.employee_id) > 0
           /\ IsTrimmed(e.full_name) /\ Len(e.full_name) >= 2
           /\ IsTrimmed(e.email) /\ HasNoUpper(e.email)
           /\ HasDotAfterLastAt(e.email)
           /\ e.department \in
                  {S_Engineering, S_Marketing, S_Sales, S_HR, S_Finance,
                   S_Operations, S_Design, S_Product}
    /\ \A e \in employees : \A f \in employees :
           Lower(Strip(e.email)) = Lower(Strip(f.email)) => e = f

\* an employee sent with padded identifier and padded upper-case email is
\* stored, and a later create with the normalised spelling of that email was
\* refused
C14_Witness ==
    /\ \E e \in employees :
           e.employee_id = S_E1 /\ e.department = S_Sales /\ e.email = S_ab_c
    /\ resp.op = "create_employee"
    /\ resp.outcome = "DuplicateEmail"

(* ---------------- C15 ---------------- *)
HasKey(r, employee_id, date) == r.employee_id = employee_id /\ r.date = date

\* C15: a delete of the attendance record (employee_id, date) answers
\* NotFound and changes nothing when no stored record has that key;
\* otherwise it answers success, the record with that key is gone, every
\* other attendance record is stored as before; in both cases every
\* employee is stored as before.
C15_DeleteAttendanceExact ==
    [][\A p \in Procs : \A e \in PathIds : \A d \in PathDates :
          delete_attendance(p, e, d) =>
              /\ employees' = employees
              /\ resp'.req = clock'
              /\ IF \E r \in attendance : HasKey(r, e, d)
                 THEN /\ resp'.status = 200
                      /\ attendance' \subseteq attendance
                      /\ \A r \in attendance :
                             r \in attendance' <=> ~HasKey(r, e, d)
                      /\ Cardinality(attendance') =
                             Cardinality(attendance) - 1
                 ELSE /\ resp'.status = 404
                      /\ resp'.outcome = "NotFound"
                      /\ attendance' = attendance]_vars

\* a delete succeeded and a record of another key is still stored
C15_Witness ==
    /\ resp.op = "delete_attendance"
    /\ resp.outcome = "Deleted"
    /\ attendance # {}

(* ---------------- C16 ---------------- *)
\* C16: the step that applies the upsert of a mark answers "updated" exactly
\* when a record of the mark's (employee_id, date) key is stored at that
\* step, and "created" otherwise, and leaves a record of that key stored; so
\* when marks of one key overlap and no record of the key is stored, the
\* first to apply its upsert answers "created" and every other one then
\* finds the record stored, which makes its answer "updated".
C16_ReportsUpdatedIffExisted ==
    [][\A p \in Procs :
          mark_attendance_update(p) =>
              /\ resp'.outcome =
                     (IF \E r \in attendance : SameKey(r, local[p].record)
                      THEN "updated" ELSE "created")
              /\ \E r \in attendance' : SameKey(r, local[p].record)
              /\ \A q \in Procs \ {p} :
                     (/\ pc'[q] = "mark_attendance_update"
                      /\ SameKey(local'[q].record, local[p].record)) =>
                         \E r \in attendance' :
                             SameKey(r, local'[q].record)]_vars

\* of two overlapping marks of one key the one that started later has
\* answered "created" and the other has yet to apply its upsert
C16_Witness ==
    /\ resp.op = "mark_attendance"
    /\ resp.outcome = "created"
    /\ \E p \in Procs :
           /\ pc[p] = "mark_attendance_update"
           /\ local[p].req < resp.req
           /\ SameKey(local[p].record, resp.body.record)

(* ---------------- C17 ---------------- *)
\* this step is the delete_one of a delete_employee request for eid
DeletesEmployee(eid) ==
    \E p \in Procs :
        /\ pc[p] = "idle"
        /\ pc'[p] = "delete_employee_many"
        /\ local'[p].employee_id = eid

\* C17: in every step each stored employee either stays stored with all its
\* fields (employee_id, full_name, email, department, created_at) as they
\* were, or is removed by a delete of that employee, its employee_id then
\* being stored no more; an employee comes to be stored only by a create
\* that answers success; so the steps of marks, attendance deletes, lists,
\* gets, summaries and refused creates leave the stored employees as they
\* were.
C17_EmployeeImmutable ==
    [][/\ \A e \in employees :
              \/ e \in employees'
              \/ /\ ~Stored(employees', e.employee_id)
                 /\ DeletesEmployee(e.employee_id)
       /\ \A e \in employees' \ employees :
              CreateSucceeded /\ resp'.body = e
       /\ (Responds /\ (resp'.op \in {"mark_attendance", "delete_attendance",
                                      "get_all_attendance", "get_employee",
                                      "get_employees",
                                      "get_dashboard_summary"}
                        \/ (resp'.op = "create_employee"
                            /\ resp'.status # 201))) =>
              employees' = employees]_vars

\* a create with the employee_id of an employee stored by an earlier request
\* was refused
C17_Witness ==
    /\ resp.op = "create_employee"
    /\ resp.outcome = "DuplicateId"
    /\ \E e \in employees : e.created_at < resp.req

(* ---------------- C18 ---------------- *)
\* every stored attendance record is of a stored employee
NoOrphanRecord == \A r \in attendance : Stored(employees, r.employee_id)

RECURSIVE SumValues(_)
SumValues(f) ==
    IF DOMAIN f = {} THEN 0
    ELSE LET k == CHOOSE x \in DOMAIN f : TRUE
         IN  f[k] + SumValues([x \in DOMAIN f \ {k} |-> f[x]])

NoZeroCount(f) == \A k \in DOMAIN f : f[k] > 0

C20_TodayRecordsWithinEmployees ==
    /\ NoneInFlight =>
           Cardinality({r \in attendance : r.date = Today})
               <= Cardinality(employees)
    /\ resp.op = "get_dashboard_summary" => resp.body.not_marked_today >= 0

\* every stored employee is marked today and a summary has answered with
\* not_marked_today zero
C20_Witness ==
    /\ resp.op = "get_dashboard_summary"
    /\ resp.body.total_employees > 0
    /\ resp.body.not_marked_today = 0
====
